---- MODULE Spec2Model ----
(***************************************************************************)
(* State-machine model of the SensorSummary dashboard: the card registry   *)
(* and display order of DashboardTab, the per-card classification of       *)
(* SensorCardWidget.update_data, the filter pass of _rebuild_layout, and   *)
(* the placement of FlowLayout.doLayout; and the signals of               *)
(* SensorPollWorker.run.                                                   *)
(*                                                                         *)
(* Conventions.                                                            *)
(*  - A Python Optional is a sequence of length 0 or 1: <<>> is None and   *)
(*    <<v>> is the value v.                                                *)
(*  - Sensor ids are the integers 1..NumIds (standing for "s1", "s2", ..). *)
(*  - Temperatures and humidities are whole numbers; vpd is in tenths of   *)
(*    a kPa, so the band 0.8..1.2 is <<8, 12>> and the scale 0..3 is       *)
(*    <<0, 30>>.                                                           *)
(*  - Strings that are searched (sensor names, the search text) are        *)
(*    sequences of one-character strings.                                  *)
(*  - A Python object is a record whose fields are the attributes the      *)
(*    class gives it; reading an attribute that is not a field raises      *)
(*    AttributeError.  A handler that raises stops there: the assignments  *)
(*    made before the raise stay.                                          *)
(*  - Lengths and coordinates are whole pixels.  QRect.right() is Qt's:    *)
(*    x + width - 1.                                                       *)
(*  - The battery, timestamp and signal labels of a card are display-only  *)
(*    and are not part of the model.                                       *)
(***************************************************************************)
EXTENDS Integers, Sequences, FiniteSets, TLC

VARIABLES
    cards_by_sensor_id,     \* DashboardTab.cards_by_sensor_id: id -> card
    ordered_sensor_ids,     \* DashboardTab.ordered_sensor_ids
    itemList,               \* FlowLayout.itemList of DashboardTab.flow_layout (ids of the cards)
    search_text,            \* DashboardTab.search_text
    hide_non_favorites_cb,  \* checkbox states
    show_minor_cb,
    show_major_cb,
    last,                   \* the last handler call: its arguments, the exception it raised,
                            \* and update_data's local out_of_range_count when it ended
    recency,                \* history: <<id, is_favorite>> of each id's last
                            \* _on_favorite_toggled call, most recent call first
    supplied_config,        \* history: per id, the last range_config other than None
                            \* passed to update_sensor_card (None if there was none)
    widget,                 \* per item of itemList, its widget: sizeHint, isVisible and
                            \* the geometry set last (None before any)
    called,                 \* the last FlowLayout call: its rect and what doLayout returned
    worker                  \* per SensorPollWorker: the position of its run() and the
                            \* signals it has emitted, in order

vars == <<cards_by_sensor_id, ordered_sensor_ids, itemList, search_text,
          hide_non_favorites_cb, show_minor_cb, show_major_cb, last, recency,
          supplied_config, widget, called, worker>>

\* The state of the FlowLayout's geometry pass
layout_vars == <<widget, called>>

----------------------------------------------------------------------------
(* Bounds and input sets *)

NumIds == 3
Ids == 1..NumIds

NoError == "ok"
AttributeError == "AttributeError"
KeyError == "KeyError"

NoReading == [temp_f |-> <<>>, humidity |-> <<>>, vpd |-> <<>>]

\* Names and search texts (sequences of characters)
Names == { <<"A", "b">>, <<"b">> }
SearchTexts == { <<>>, <<" ", "A">>, <<"z">> }

\* A full per-sensor config, as the SENSOR_RANGES entries of main.py are
FullConfig ==
    [temp_range |-> <<0, 120>>, temp_good |-> <<50, 56>>,
     hum_range  |-> <<0, 100>>, hum_good  |-> <<40, 50>>,
     vpd_range  |-> <<0, 30>>,  vpd_good  |-> <<10, 15>>]
\* A config without an entry for the temperature and humidity bands
PartialConfig == [vpd_range |-> <<0, 30>>, vpd_good |-> <<10, 15>>]
\* A malformed config: every good band has its minimum above its maximum
InvertedConfig ==
    [temp_range |-> <<0, 120>>, temp_good |-> <<70, 60>>,
     hum_range  |-> <<0, 100>>, hum_good  |-> <<55, 45>>,
     vpd_range  |-> <<0, 30>>,  vpd_good  |-> <<12, 8>>]

\* The most items the layout is given
MaxItems == 4

\* The number of SensorPollWorker objects that are run
NumWorkers == 2
Workers == 1..NumWorkers

\* DashboardTab builds its layout as FlowLayout(.., margin=10, spacing=10)
Margin == 10
Spacing == 10

\* Size hints of the items and widths of the container
ItemSizes ==
    { [width |-> 100, height |-> 50], [width |-> 100, height |-> 80],
      [width |-> 340, height |-> 50] }
ContainerWidths == { 330, 215 }

----------------------------------------------------------------------------
(* Python string helpers used by _rebuild_layout *)

LowerChar(c) == CASE c = "A" -> "a" [] c = "B" -> "b" [] OTHER -> c

Lower(s) == [i \in 1..Len(s) |-> LowerChar(s[i])]

RECURSIVE LStrip(_)
LStrip(s) == IF s # <<>> /\ Head(s) = " " THEN LStrip(Tail(s)) ELSE s

RECURSIVE RStrip(_)
RStrip(s) == IF s # <<>> /\ s[Len(s)] = " " THEN RStrip(SubSeq(s, 1, Len(s) - 1)) ELSE s

Strip(s) == RStrip(LStrip(s))

\* needle in hay
Contains(needle, hay) ==
    \E i \in 0..(Len(hay) - Len(needle)) : SubSeq(hay, i + 1, i + Len(needle)) = needle

\* x in lst
InList(x, lst) == \E i \in 1..Len(lst) : lst[i] = x

\* lst.remove(x): removes the first occurrence
ListRemove(lst, x) ==
    LET i == CHOOSE k \in 1..Len(lst) : lst[k] = x /\ \A j \in 1..(k - 1) : lst[j] # x
    IN  SubSeq(lst, 1, i - 1) \o SubSeq(lst, i + 1, Len(lst))

\* d.get(k, default)
DictGet(d, k, default) == IF k \in DOMAIN d THEN d[k] ELSE default

----------------------------------------------------------------------------
(* range_bar.py *)

\* The methods class RangeBar defines
RangeBarMethods == {"setRange", "setGoodRange", "setValue", "paintEvent"}

RangeBar(min_val, max_val, good_min, good_max, current_value) ==
    [min_val |-> min_val, max_val |-> max_val,
     good_min |-> good_min, good_max |-> good_max,
     current_value |-> current_value]

----------------------------------------------------------------------------
(* sensor_card.py *)

\* _create_reading_row: the value label (<<>> is the "??" placeholder text,
\* <<v>> the formatted value v) and its RangeBar
CreateReadingRow ==
    [value_label |-> <<>>, bar |-> RangeBar(0, 100, 40, 60, 50)]

\* SensorCardWidget.__init__: the attributes a card has.  favoriteToggled is
\* the signal, held as the set of slots connected to it.
SensorCardWidget(sensor_id, sensor_name) ==
    [sensor_id |-> sensor_id,
     sensor_name |-> sensor_name,
     is_favorite |-> FALSE,
     favoriteToggled |-> {},
     color_box |-> "#28a745",
     temp_row |-> CreateReadingRow,
     hum_row |-> CreateReadingRow,
     vpd_row |-> CreateReadingRow]

\* Mutant of Bands: without a config, the bands are the defaults of the
\* range_config.get(..) calls
BandsGetDefaults(range_config) ==
    LET rc == IF range_config # <<>> THEN range_config[1] ELSE [k \in {} |-> <<0, 0>>] IN
    [temp_range |-> DictGet(rc, "temp_range", <<32, 100>>),
     temp_good  |-> DictGet(rc, "temp_good", <<60, 70>>),
     hum_range  |-> DictGet(rc, "hum_range", <<0, 100>>),
     hum_good   |-> DictGet(rc, "hum_good", <<45, 55>>),
     vpd_range  |-> DictGet(rc, "vpd_range", <<0, 30>>),
     vpd_good   |-> DictGet(rc, "vpd_good", <<8, 12>>)]

\* update_data, the bands it reads: from range_config's entries when a
\* config is passed, the fallback constants when it is None
Bands(range_config) ==
    IF range_config # <<>>
    THEN LET rc == range_config[1] IN
         [temp_range |-> DictGet(rc, "temp_range", <<32, 100>>),
          temp_good  |-> DictGet(rc, "temp_good", <<60, 70>>),
          hum_range  |-> DictGet(rc, "hum_range", <<0, 100>>),
          hum_good   |-> DictGet(rc, "hum_good", <<45, 55>>),
          vpd_range  |-> DictGet(rc, "vpd_range", <<0, 30>>),
          vpd_good   |-> DictGet(rc, "vpd_good", <<8, 12>>)]
    ELSE [temp_range |-> <<32, 100>>, temp_good |-> <<55, 65>>,
          hum_range  |-> <<0, 100>>,  hum_good  |-> <<45, 65>>,
          vpd_range  |-> <<0, 30>>,   vpd_good  |-> <<8, 12>>]

\* update_data, one of the TEMPERATURE / HUMIDITY / VPD blocks, run on the
\* state st = [card, out_of_range_count, raised, evaluated] of the call.
\* The block ends with bar.setMarkerColor(..), in both branches.
MetricBlock(st, row, value, rng, good) ==
    IF st.raised # NoError \/ value = <<>>
    THEN st
    ELSE LET v == value[1]
             bar == RangeBar(rng[1], rng[2], good[1], good[2], v)
             out == v < good[1] \/ v > good[2]
         IN  [card |-> [st.card EXCEPT ![row] = [value_label |-> <<v>>, bar |-> bar]],
              out_of_range_count |->
                  IF out THEN st.out_of_range_count + 1 ELSE st.out_of_range_count,
              evaluated |-> st.evaluated \cup {row},
              raised |-> IF "setMarkerColor" \in RangeBarMethods
                         THEN NoError ELSE AttributeError]

\* update_data, the colour of the box for a count
ColorBox(count) ==
    IF count = 0 THEN "#28a745" ELSE IF count = 1 THEN "#FFFF00" ELSE "#FF0000"

\* SensorCardWidget.update_data
UpdateData(card, reading, range_config) ==
    LET b  == Bands(range_config)
        s0 == [card |-> card, out_of_range_count |-> 0, evaluated |-> {},
               raised |-> NoError]
        s1 == MetricBlock(s0, "temp_row", reading.temp_f, b.temp_range, b.temp_good)
        s2 == MetricBlock(s1, "hum_row", reading.humidity, b.hum_range, b.hum_good)
        s3 == MetricBlock(s2, "vpd_row", reading.vpd, b.vpd_range, b.vpd_good)
    IN  IF s3.raised # NoError
        THEN s3
        ELSE [s3 EXCEPT !.card.color_box = ColorBox(s3.out_of_range_count)]

----------------------------------------------------------------------------
(* dashboard_tab.py *)

\* The filter state _rebuild_layout reads
Filters(text, hide, minor, major) ==
    [search_text |-> text, hide_non_favorites |-> hide,
     show_minor |-> minor, show_major |-> major]

\* _rebuild_layout, the loop over ordered_sensor_ids from position i on
RECURSIVE RebuildLoop(_, _, _, _, _)
RebuildLoop(cards, order, flt, i, items) ==
    IF i > Len(order)
    THEN [itemList |-> items, raised |-> NoError]
    ELSE LET sensor_id == order[i] IN
         IF sensor_id \notin DOMAIN cards
         THEN [itemList |-> items, raised |-> KeyError]
         ELSE LET card == cards[sensor_id]
                  search_lower == Strip(Lower(flt.search_text))
              IN  IF ~Contains(search_lower, Lower(card.sensor_name))
                  THEN RebuildLoop(cards, order, flt, i + 1, items)
                  ELSE IF flt.hide_non_favorites /\ ~card.is_favorite
                  THEN RebuildLoop(cards, order, flt, i + 1, items)
                  ELSE IF "out_of_range_count" \notin DOMAIN card
                  THEN [itemList |-> items, raised |-> AttributeError]
                  ELSE LET out_count == card.out_of_range_count IN
                       IF out_count = 1 /\ ~flt.show_minor
                       THEN RebuildLoop(cards, order, flt, i + 1, items)
                       ELSE IF out_count >= 2 /\ ~flt.show_major
                       THEN RebuildLoop(cards, order, flt, i + 1, items)
                       ELSE RebuildLoop(cards, order, flt, i + 1,
                                        Append(items, sensor_id))

\* _rebuild_layout: the layout is emptied, then refilled
RebuildLayout(cards, order, flt) == RebuildLoop(cards, order, flt, 1, <<>>)

\* get_or_create_card
GetOrCreateCard(cards, order, items, flt, sensor_id, sensor_name) ==
    IF sensor_id \notin DOMAIN cards
    THEN LET card   == [SensorCardWidget(sensor_id, sensor_name)
                            EXCEPT !.favoriteToggled = @ \cup {"_on_favorite_toggled"}]
             cards1 == cards @@ (sensor_id :> card)
         IN  IF "sensorClicked" \notin DOMAIN card
             THEN [cards |-> cards1, order |-> order, itemList |-> items,
                   raised |-> AttributeError]
             ELSE LET order1 == Append(order, sensor_id)
                      rb == RebuildLayout(cards1, order1, flt)
                  IN  [cards |-> cards1, order |-> order1, itemList |-> rb.itemList,
                       raised |-> rb.raised]
    ELSE [cards |-> [cards EXCEPT ![sensor_id].sensor_name = sensor_name],
          order |-> order, itemList |-> items, raised |-> NoError]

\* update_sensor_card: get_or_create_card, update_data, _rebuild_layout
UpdateSensorCardCall(cards, order, items, flt, sensor_id, sensor_name, reading, range_config) ==
    LET g == GetOrCreateCard(cards, order, items, flt, sensor_id, sensor_name) IN
    IF g.raised # NoError
    THEN [cards |-> g.cards, order |-> g.order, itemList |-> g.itemList,
          raised |-> g.raised, out_of_range_count |-> <<>>, evaluated |-> {}]
    ELSE LET u == UpdateData(g.cards[sensor_id], reading, range_config)
             cards2 == [g.cards EXCEPT ![sensor_id] = u.card]
         IN  IF u.raised # NoError
             THEN [cards |-> cards2, order |-> g.order, itemList |-> g.itemList,
                   raised |-> u.raised,
                   out_of_range_count |-> <<u.out_of_range_count>>,
                   evaluated |-> u.evaluated]
             ELSE LET rb == RebuildLayout(cards2, g.order, flt) IN
                  [cards |-> cards2, order |-> g.order, itemList |-> rb.itemList,
                   raised |-> rb.raised,
                   out_of_range_count |-> <<u.out_of_range_count>>,
                   evaluated |-> u.evaluated]

\* Mutant of FavoriteReorder: the id is appended whatever is_favorite is
FavoriteReorderAlwaysAppend(order, sensor_id, is_favorite) ==
    LET removed == IF InList(sensor_id, order) THEN ListRemove(order, sensor_id) ELSE order
    IN  Append(removed, sensor_id)

\* Mutant of FavoriteReorder: an id already in the list keeps its place
FavoriteReorderKeepsPlace(order, sensor_id, is_favorite) ==
    IF InList(sensor_id, order)
    THEN order
    ELSE IF is_favorite THEN <<sensor_id>> \o order ELSE Append(order, sensor_id)

\* Mutant of FavoriteReorder: a favorite goes to the back, another to the front
FavoriteReorderFavoritesLast(order, sensor_id, is_favorite) ==
    LET removed == IF InList(sensor_id, order) THEN ListRemove(order, sensor_id) ELSE order
    IN  IF is_favorite THEN Append(removed, sensor_id) ELSE <<sensor_id>> \o removed

\* _on_favorite_toggled, the new ordered_sensor_ids
FavoriteReorder(order, sensor_id, is_favorite) ==
    LET removed == IF InList(sensor_id, order) THEN ListRemove(order, sensor_id) ELSE order
    IN  IF is_favorite THEN <<sensor_id>> \o removed ELSE Append(removed, sensor_id)

----------------------------------------------------------------------------
(* flow_layout.py *)

QRect(x, y, width, height) == [x |-> x, y |-> y, width |-> width, height |-> height]

\* rect.right()
Right(rect) == rect.x + rect.width - 1

\* Mutant of Max: the later value is taken
MaxTakesLater(a, b) == b

Max(a, b) == IF a >= b THEN a ELSE b

\* FlowLayout.__init__: the contents margins and the spacing the layout holds
FlowLayoutInit(margin, spacing) ==
    [contentsMargins |-> [left |-> margin, top |-> margin, right |-> margin,
                          bottom |-> margin],
     spacing |-> IF spacing >= 0 THEN spacing ELSE 6]

\* DashboardTab.flow_layout
flow_layout == FlowLayoutInit(Margin, Spacing)

\* A widget as the layout sees it
Widget(size_hint, is_visible) ==
    [sizeHint |-> size_hint, isVisible |-> is_visible, geometry |-> <<>>]

\* Mutant of ItemSkipped: no item is skipped
ItemSkippedNever(wid) == FALSE

\* doLayout: `if not wid.isVisible(): continue`
ItemSkipped(wid) == ~wid.isVisible

\* doLayout, the wrap test
WrapNeeded(nextX, spaceX, rect, lineHeight) ==
    nextX - spaceX > Right(rect) /\ lineHeight > 0

\* Mutant of NextRowY: a wrap does not move down
NextRowYStays(y, lineHeight, spaceY) == y

\* Mutant of NextRowY: the rows follow one another without the spacing
NextRowYNoSpacing(y, lineHeight, spaceY) == y + lineHeight

\* doLayout, the y of the row a wrap starts
NextRowY(y, lineHeight, spaceY) == y + lineHeight + spaceY

\* doLayout, the loop over itemList from position i on, with the cursor
\* (x, y) and lineHeight; wid is the widget map, ret the value returned
RECURSIVE DoLayoutLoop(_, _, _, _, _, _, _, _)
DoLayoutLoop(items, wid, rect, testOnly, i, x, y, lineHeight) ==
    IF i > Len(items)
    THEN [widget |-> wid, ret |-> y + lineHeight - rect.y]
    ELSE LET item == items[i]
             hint == wid[item].sizeHint
         IN  IF ItemSkipped(wid[item])
             THEN DoLayoutLoop(items, wid, rect, testOnly, i + 1, x, y, lineHeight)
             ELSE LET spaceX == flow_layout.spacing
                      spaceY == flow_layout.spacing
                      nextX0 == x + hint.width + spaceX
                      wrap   == WrapNeeded(nextX0, spaceX, rect, lineHeight)
                      x1     == IF wrap THEN rect.x ELSE x
                      y1     == IF wrap THEN NextRowY(y, lineHeight, spaceY) ELSE y
                      nextX  == IF wrap THEN x1 + hint.width + spaceX ELSE nextX0
                      lineHeight1 == IF wrap THEN 0 ELSE lineHeight
                      wid1   == IF testOnly
                                THEN wid
                                ELSE [wid EXCEPT ![item].geometry =
                                          << QRect(x1, y1, hint.width, hint.height) >>]
                  IN  DoLayoutLoop(items, wid1, rect, testOnly, i + 1, nextX, y1,
                                   Max(lineHeight1, hint.height))

\* FlowLayout.doLayout(rect, testOnly)
DoLayout(items, wid, rect, testOnly) ==
    DoLayoutLoop(items, wid, rect, testOnly, 1, rect.x, rect.y, 0)

\* Mutant of HeightForWidth: the width is taken without the margins
HeightForWidthInsideMargins(items, wid, width) ==
    DoLayout(items, wid, QRect(0, 0, width - 2 * Margin, 0), TRUE)

\* FlowLayout.heightForWidth(width)
HeightForWidth(items, wid, width) ==
    DoLayout(items, wid, QRect(0, 0, width, 0), TRUE)

----------------------------------------------------------------------------
(* sensor_poll_worker.py *)

\* SensorPollWorker.__init__: run() has not started, nothing is emitted
SensorPollWorker == [pc |-> "get_sensors", emitted |-> <<>>]

\* self.signals.<signal>.emit(..), then on to the statement at pc
Emit(w, signal, pc) ==
    [worker EXCEPT ![w] = [pc |-> pc, emitted |-> Append(@.emitted, signal)]]

\* Control moves to the statement at pc
Goto(w, pc) == [worker EXCEPT ![w].pc = pc]

----------------------------------------------------------------------------
(* The state machine *)

CurrentFilters ==
    Filters(search_text, hide_non_favorites_cb, show_minor_cb, show_major_cb)

Call(op, sensor_id, is_favorite, reading, range_config, raised, count, evaluated) ==
    [op |-> op, sensor_id |-> sensor_id, is_favorite |-> is_favorite,
     reading |-> reading, range_config |-> range_config, raised |-> raised,
     out_of_range_count |-> count, evaluated |-> evaluated]

\* The recency list after a call of _on_favorite_toggled(sensor_id, is_favorite)
Touch(log, sensor_id, is_favorite) ==
    <<  <<sensor_id, is_favorite>>  >> \o SelectSeq(log, LAMBDA e : e[1] # sensor_id)

\* DashboardTab.__init__
Init ==
    /\ cards_by_sensor_id = [k \in {} |-> 0]
    /\ ordered_sensor_ids = <<>>
    /\ itemList = <<>>
    /\ search_text = <<>>
    /\ hide_non_favorites_cb = FALSE
    /\ show_minor_cb = TRUE
    /\ show_major_cb = TRUE
    /\ last = Call("__init__", 0, FALSE, NoReading, <<>>, NoError, <<>>, {})
    /\ recency = <<>>
    /\ supplied_config = [k \in Ids |-> <<>>]
    /\ widget = [k \in {} |-> 0]
    /\ called = [op |-> "__init__", rect |-> <<>>, ret |-> <<>>]
    /\ worker = [w \in Workers |-> SensorPollWorker]

\* DashboardTab.update_sensor_card(sensor_id, sensor_name, temp_f, humidity, vpd, range_config)
update_sensor_card(sensor_id, sensor_name, reading, range_config) ==
    LET r == UpdateSensorCardCall(cards_by_sensor_id, ordered_sensor_ids, itemList,
                                  CurrentFilters, sensor_id, sensor_name, reading,
                                  range_config)
    IN  /\ cards_by_sensor_id' = r.cards
        /\ ordered_sensor_ids' = r.order
        /\ itemList' = r.itemList
        /\ last' = Call("update_sensor_card", sensor_id, FALSE, reading, range_config,
                        r.raised, r.out_of_range_count, r.evaluated)
        /\ supplied_config' = IF range_config # <<>>
                              THEN [supplied_config EXCEPT ![sensor_id] = range_config]
                              ELSE supplied_config
        /\ UNCHANGED <<search_text, hide_non_favorites_cb, show_minor_cb, show_major_cb,
                       recency>>
        /\ UNCHANGED <<layout_vars, worker>>

\* DashboardTab._on_favorite_toggled(sensor_id, is_favorite), run on the cards given
on_favorite_toggled(op, cards, sensor_id, is_favorite) ==
    LET order1 == FavoriteReorder(ordered_sensor_ids, sensor_id, is_favorite)
        rb == RebuildLayout(cards, order1, CurrentFilters)
    IN  /\ cards_by_sensor_id' = cards
        /\ ordered_sensor_ids' = order1
        /\ itemList' = rb.itemList
        /\ last' = Call(op, sensor_id, is_favorite, NoReading, <<>>, rb.raised, <<>>, {})
        /\ recency' = Touch(recency, sensor_id, is_favorite)
        /\ UNCHANGED <<search_text, hide_non_favorites_cb, show_minor_cb, show_major_cb,
                       supplied_config>>
        /\ UNCHANGED <<layout_vars, worker>>

\* SensorCardWidget._on_star_toggled(checked) of the card of sensor_id: the
\* star button's toggled signal carries the new checked state; the card
\* stores it and emits favoriteToggled to the slots connected
on_star_toggled(sensor_id) ==
    LET checked == ~cards_by_sensor_id[sensor_id].is_favorite
        cards1 == [cards_by_sensor_id EXCEPT ![sensor_id].is_favorite = checked]
    IN  IF "_on_favorite_toggled" \in cards1[sensor_id].favoriteToggled
        THEN on_favorite_toggled("_on_star_toggled", cards1, sensor_id, checked)
        ELSE /\ cards_by_sensor_id' = cards1
             /\ last' = Call("_on_star_toggled", sensor_id, checked, NoReading, <<>>,
                             NoError, <<>>, {})
             /\ UNCHANGED <<ordered_sensor_ids, itemList, search_text,
                            hide_non_favorites_cb, show_minor_cb, show_major_cb, recency,
                            supplied_config>>
             /\ UNCHANGED <<layout_vars, worker>>

\* DashboardTab._on_search_text_changed(text)
on_search_text_changed(text) ==
    LET rb == RebuildLayout(cards_by_sensor_id, ordered_sensor_ids,
                            Filters(text, hide_non_favorites_cb, show_minor_cb, show_major_cb))
    IN  /\ search_text' = text
        /\ itemList' = rb.itemList
        /\ last' = Call("_on_search_text_changed", 0, FALSE, NoReading, <<>>, rb.raised,
                        <<>>, {})
        /\ UNCHANGED <<cards_by_sensor_id, ordered_sensor_ids, hide_non_favorites_cb,
                       show_minor_cb, show_major_cb, recency, supplied_config>>
        /\ UNCHANGED <<layout_vars, worker>>

\* A checkbox flips its state, then DashboardTab._on_filter_changed(state) runs
on_filter_changed(hide, minor, major) ==
    LET rb == RebuildLayout(cards_by_sensor_id, ordered_sensor_ids,
                            Filters(search_text, hide, minor, major))
    IN  /\ hide_non_favorites_cb' = hide
        /\ show_minor_cb' = minor
        /\ show_major_cb' = major
        /\ itemList' = rb.itemList
        /\ last' = Call("_on_filter_changed", 0, FALSE, NoReading, <<>>, rb.raised,
                        <<>>, {})
        /\ UNCHANGED <<cards_by_sensor_id, ordered_sensor_ids, search_text, recency,
                       supplied_config>>
        /\ UNCHANGED <<layout_vars, worker>>

\* The state of the dashboard
dashboard_vars ==
    <<cards_by_sensor_id, ordered_sensor_ids, search_text, hide_non_favorites_cb,
      show_minor_cb, show_major_cb, last, recency, supplied_config>>

\* FlowLayout.addItem(item), the item wrapping a widget (layout.addWidget)
addItem(size_hint, is_visible) ==
    LET item == Len(itemList) + 1
    IN  /\ Len(itemList) < MaxItems
        /\ itemList' = Append(itemList, item)
        /\ widget' = widget @@ (item :> Widget(size_hint, is_visible))
        /\ called' = [op |-> "addItem", rect |-> <<>>, ret |-> <<>>]
        /\ UNCHANGED <<dashboard_vars, worker>>

\* FlowLayout.setGeometry(rect)
setGeometry(rect) ==
    LET r == DoLayout(itemList, widget, rect, FALSE)
    IN  /\ widget' = r.widget
        /\ called' = [op |-> "setGeometry", rect |-> <<rect>>, ret |-> <<r.ret>>]
        /\ UNCHANGED <<itemList, dashboard_vars, worker>>

\* FlowLayout.heightForWidth(width)
heightForWidth(width) ==
    LET r == HeightForWidth(itemList, widget, width)
    IN  /\ widget' = r.widget
        /\ called' = [op |-> "heightForWidth", rect |-> <<QRect(0, 0, width, 0)>>,
                       ret |-> <<r.ret>>]
        /\ UNCHANGED <<itemList, dashboard_vars, worker>>

\* What the worker steps leave alone
gui_vars == <<itemList, dashboard_vars, layout_vars>>

\* run, lines 32-34: api.get_sensors() returns no sensor, returns sensors,
\* or raises
get_sensors(w, outcome) ==
    /\ worker[w].pc = "get_sensors"
    /\ worker' = Goto(w, CASE outcome = "empty"   -> "emit_result_no_sensors"
                            [] outcome = "sensors" -> "get_samples"
                            [] outcome = "raises"  -> "except")
    /\ UNCHANGED gui_vars

\* run, line 36: result.emit({}, {})
emit_result_no_sensors(w) ==
    /\ worker[w].pc = "emit_result_no_sensors"
    /\ worker' = Emit(w, "result", "emit_finished_no_sensors")
    /\ UNCHANGED gui_vars

\* run, lines 37-38: finished.emit(), then return, which runs the finally
\* clause
emit_finished_no_sensors(w) ==
    /\ worker[w].pc = "emit_finished_no_sensors"
    /\ worker' = Emit(w, "finished", "finally")
    /\ UNCHANGED gui_vars

\* run, lines 40-42: api.get_samples(..) returns or raises
get_samples(w, outcome) ==
    /\ worker[w].pc = "get_samples"
    /\ worker' = Goto(w, IF outcome = "raises" THEN "except" ELSE "emit_result")
    /\ UNCHANGED gui_vars

\* run, line 45: result.emit(sensors, samples_resp)
emit_result(w) ==
    /\ worker[w].pc = "emit_result"
    /\ worker' = Emit(w, "result", "finally")
    /\ UNCHANGED gui_vars

\* run, lines 47-49: error.emit(exc_str)
emit_error(w) ==
    /\ worker[w].pc = "except"
    /\ worker' = Emit(w, "error", "finally")
    /\ UNCHANGED gui_vars

\* run, lines 50-51: finished.emit(); run() has ended
emit_finished(w) ==
    /\ worker[w].pc = "finally"
    /\ worker' = Emit(w, "finished", "done")
    /\ UNCHANGED gui_vars

----------------------------------------------------------------------------
(* Specification Spec: the registry and the display order, driven by       *)
(* update_sensor_card and _on_favorite_toggled with every id and flag.     *)
(* Upserts carry the placeholder reading poll_sensors sends first (no      *)
(* values, and no config for an id SENSOR_RANGES does not list).           *)

Upsert ==
    \E sensor_id \in Ids :
        update_sensor_card(sensor_id, <<"A", "b">>, NoReading, <<>>)

SetFavorite ==
    \E sensor_id \in Ids, is_favorite \in BOOLEAN :
        on_favorite_toggled("_on_favorite_toggled", cards_by_sensor_id, sensor_id,
                            is_favorite)

Next ==
    \/ Upsert
    \/ SetFavorite

Spec == Init /\ [][Next]_vars

----------------------------------------------------------------------------
(* Specification SpecClassify: one sensor, upserts with every reading and  *)
(* config of the input sets below.                                         *)

TempValues == { <<>>, <<55>>, <<57>>, <<66>> }
HumValues == { <<>>, <<60>>, <<70>> }
VpdValues == { <<>>, <<13>> }

Readings ==
    [temp_f : TempValues, humidity : HumValues, vpd : VpdValues]

Configs == { <<>>, <<PartialConfig>>, <<FullConfig>> }

UpsertReading ==
    \E reading \in Readings, range_config \in Configs :
        update_sensor_card(1, <<"A", "b">>, reading, range_config)

NextClassify == UpsertReading

SpecClassify == Init /\ [][NextClassify]_vars

----------------------------------------------------------------------------
(* Specification SpecMalformed: one sensor, upserts with every reading,    *)
(* with the malformed config or none.                                      *)

UpsertMalformed ==
    \E reading \in Readings, range_config \in { <<>>, <<InvertedConfig>> } :
        update_sensor_card(1, <<"A", "b">>, reading, range_config)

NextMalformed == UpsertMalformed

SpecMalformed == Init /\ [][NextMalformed]_vars

----------------------------------------------------------------------------
(* Specification SpecDashboard: two sensors, with the star buttons, the    *)
(* search box and the three checkboxes.                                    *)

DashUpsert ==
    \E sensor_id \in {1, 2}, sensor_name \in Names :
        update_sensor_card(sensor_id, sensor_name, NoReading, <<>>)

StarToggled ==
    \E sensor_id \in DOMAIN cards_by_sensor_id : on_star_toggled(sensor_id)

SearchTextChanged ==
    \E text \in SearchTexts : on_search_text_changed(text)

HideNonFavoritesChanged ==
    on_filter_changed(~hide_non_favorites_cb, show_minor_cb, show_major_cb)

ShowMinorChanged ==
    on_filter_changed(hide_non_favorites_cb, ~show_minor_cb, show_major_cb)

ShowMajorChanged ==
    on_filter_changed(hide_non_favorites_cb, show_minor_cb, ~show_major_cb)

NextDashboard ==
    \/ DashUpsert
    \/ StarToggled
    \/ SearchTextChanged
    \/ HideNonFavoritesChanged
    \/ ShowMinorChanged
    \/ ShowMajorChanged

SpecDashboard == Init /\ [][NextDashboard]_vars

----------------------------------------------------------------------------
(* Specification SpecLayout: a FlowLayout that is given up to MaxItems     *)
(* items, visible or not, and is laid out and measured at the container    *)
(* widths.  Qt hands setGeometry the rectangle of the container widget,    *)
(* whose origin is (0, 0).                                                 *)

AddItem ==
    \E size_hint \in ItemSizes, is_visible \in BOOLEAN : addItem(size_hint, is_visible)

SetGeometry ==
    \E width \in ContainerWidths : setGeometry(QRect(0, 0, width, 400))

MeasureHeight ==
    \E width \in ContainerWidths : heightForWidth(width)

NextLayout ==
    \/ AddItem
    \/ SetGeometry
    \/ MeasureHeight

SpecLayout == Init /\ [][NextLayout]_vars

----------------------------------------------------------------------------
(* Specification SpecWorker: NumWorkers poll workers run, each on its own  *)
(* thread of the pool, with every outcome of the two API calls.            *)

GetSensors ==
    \E w \in Workers, outcome \in {"empty", "sensors", "raises"} : get_sensors(w, outcome)

EmitResultNoSensors == \E w \in Workers : emit_result_no_sensors(w)

EmitFinishedNoSensors == \E w \in Workers : emit_finished_no_sensors(w)

GetSamples ==
    \E w \in Workers, outcome \in {"ok", "raises"} : get_samples(w, outcome)

EmitResult == \E w \in Workers : emit_result(w)

EmitError == \E w \in Workers : emit_error(w)

EmitFinished == \E w \in Workers : emit_finished(w)

NextWorker ==
    \/ GetSensors
    \/ EmitResultNoSensors
    \/ EmitFinishedNoSensors
    \/ GetSamples
    \/ EmitResult
    \/ EmitError
    \/ EmitFinished

SpecWorker == Init /\ [][NextWorker]_vars

----------------------------------------------------------------------------
(* Claims C1..C6: the registry and the display order (specification Spec)  *)

Known == DOMAIN cards_by_sensor_id

IsUpsert(call) == call.op = "update_sensor_card"

IsSetFavorite(call) == call.op = "_on_favorite_toggled"

Without(order, sensor_id) == SelectSeq(order, LAMBDA x : x # sensor_id)

\* C1: in every reachable state ordered_sensor_ids holds exactly the ids of
\* cards_by_sensor_id, each exactly once.
C1_DisplayOrderIsKnownSet ==
    /\ { ordered_sensor_ids[i] : i \in 1..Len(ordered_sensor_ids) } = Known
    /\ \A i, j \in 1..Len(ordered_sensor_ids) :
           i # j => ordered_sensor_ids[i] # ordered_sensor_ids[j]

\* C2: _on_favorite_toggled with an id that is not a known sensor raises
\* nothing and leaves the display order, the registry and the laid-out set
\* as they were.
C2_SetFavoriteUnknownIsNoOp ==
    [][ (IsSetFavorite(last') /\ last'.sensor_id \notin Known)
        => /\ last'.raised = NoError
           /\ ordered_sensor_ids' = ordered_sensor_ids
           /\ cards_by_sensor_id' = cards_by_sensor_id
           /\ itemList' = itemList ]_vars

\* C3: update_sensor_card never raises, for a new id and for a known one.
C3_UpsertNeverRaises ==
    IsUpsert(last) => last.raised = NoError

\* C4: for a known id, _on_favorite_toggled leaves the id in the display
\* order exactly once, first when is_favorite and last when not, and the
\* other ids keep their relative order.
C4_SetFavoriteMovesToFrontOrBack ==
    [][ (IsSetFavorite(last') /\ last'.sensor_id \in Known)
        => LET sid == last'.sensor_id
               new == ordered_sensor_ids'
           IN  /\ Len(new) >= 1
               /\ last'.is_favorite => new[1] = sid
               /\ ~last'.is_favorite => new[Len(new)] = sid
               /\ Cardinality({ i \in 1..Len(new) : new[i] = sid }) = 1
               /\ Without(new, sid) = Without(ordered_sensor_ids, sid) ]_vars

\* A known sensor is favorited while two others are in the order, and heads it
C4_Witness ==
    /\ IsSetFavorite(last)
    /\ last.sensor_id = 3
    /\ last.is_favorite
    /\ Known = {1, 2, 3}
    /\ ordered_sensor_ids = <<3, 1, 2>>

\* Position of an id in the recency list (1 is the most recent toggle)
Rank(sensor_id) == CHOOSE k \in 1..Len(recency) : recency[k][1] = sensor_id

LastToggle(sensor_id) == recency[Rank(sensor_id)][2]

Toggled == { recency[k][1] : k \in 1..Len(recency) }

\* Among the ids last toggled to favorite the most recently toggled comes
\* first; among those last toggled to not favorite it comes last.
RecencyOrder ==
    \A i, j \in 1..Len(ordered_sensor_ids) :
        LET a == ordered_sensor_ids[i]
            b == ordered_sensor_ids[j]
        IN  (i < j /\ a \in Toggled /\ b \in Toggled)
            => /\ (LastToggle(a) /\ LastToggle(b)) => Rank(a) < Rank(b)
               /\ (~LastToggle(a) /\ ~LastToggle(b)) => Rank(a) > Rank(b)

\* From [s1, s2, s3], favoriting s3 gives [s3, s1, s2], and favoriting s1
\* right after it gives [s1, s3, s2].
LifoExample ==
    /\ ( /\ ordered_sensor_ids = <<1, 2, 3>>
         /\ IsSetFavorite(last') /\ last'.sensor_id = 3 /\ last'.is_favorite )
       => ordered_sensor_ids' = <<3, 1, 2>>
    /\ ( /\ ordered_sensor_ids = <<3, 1, 2>>
         /\ IsSetFavorite(last) /\ last.sensor_id = 3 /\ last.is_favorite
         /\ IsSetFavorite(last') /\ last'.sensor_id = 1 /\ last'.is_favorite )
       => ordered_sensor_ids' = <<1, 3, 2>>

\* C5: after any sequence of favorite toggles the favorites stand most
\* recently favorited first and the unfavorited most recently unfavorited
\* last; from [s1,s2,s3], favoriting s3 then s1 yields [s1,s3,s2].
C5_FavoriteLifoOrder ==
    /\ []RecencyOrder
    /\ [][LifoExample]_vars

\* s3 then s1 were favorited, s2 was last unfavorited: the order is [s1,s3,s2]
C5_Witness ==
    /\ Known = {1, 2, 3}
    /\ IsSetFavorite(last) /\ last.sensor_id = 1 /\ last.is_favorite
    /\ recency = << <<1, TRUE>>, <<3, TRUE>>, <<2, FALSE>> >>
    /\ ordered_sensor_ids = <<1, 3, 2>>

\* C6: update_sensor_card of an unseen id creates its card and appends the
\* id to the display order; of a known id, it leaves the display order and
\* every favorite flag as they were.
C6_UpsertAppendsUnseenOnly ==
    [][ IsUpsert(last')
        => LET sid == last'.sensor_id IN
           IF sid \notin Known
           THEN /\ sid \in DOMAIN cards_by_sensor_id'
                /\ ordered_sensor_ids' = Append(ordered_sensor_ids, sid)
           ELSE /\ ordered_sensor_ids' = ordered_sensor_ids
                /\ \A k \in Known :
                       cards_by_sensor_id'[k].is_favorite
                           = cards_by_sensor_id[k].is_favorite ]_vars

----------------------------------------------------------------------------
(* Claims C7..C10: classification (specification SpecClassify)             *)

Rows == {"temp_row", "hum_row", "vpd_row"}

\* The argument of update_data a row shows
ValueOf(reading, row) ==
    CASE row = "temp_row" -> reading.temp_f
      [] row = "hum_row"  -> reading.humidity
      [] row = "vpd_row"  -> reading.vpd

\* The range_config key of a row's good band
GoodKey(row) ==
    CASE row = "temp_row" -> "temp_good"
      [] row = "hum_row"  -> "hum_good"
      [] row = "vpd_row"  -> "vpd_good"

\* The default good bands the specification documents
DocumentedDefault(row) ==
    CASE row = "temp_row" -> <<55, 65>>
      [] row = "hum_row"  -> <<45, 65>>
      [] row = "vpd_row"  -> <<8, 12>>

OutOf(v, band) == v < band[1] \/ v > band[2]

\* The good band a row's bar holds
BarGood(card, row) == <<card[row].bar.good_min, card[row].bar.good_max>>

\* The card keeps no count: its severity is the colour of its box
SeverityColor(count) ==
    CASE count = 0 -> "#28a745"
      [] count = 1 -> "#FFFF00"
      [] OTHER     -> "#FF0000"

\* The metrics of a card whose retained value lies outside the band retained
\* with it
MergedOutOfBand(card) ==
    { row \in Rows : /\ card[row].value_label # <<>>
                     /\ OutOf(card[row].value_label[1], BarGood(card, row)) }

\* C7: after any upsert (that completes), the severity the card shows is the
\* count of the metrics of its merged reading that lie outside their band,
\* a metric absent from the update keeping its last reported value.
C7_SeverityFromMergedReading ==
    (IsUpsert(last) /\ last.raised = NoError)
    => LET card == cards_by_sensor_id[last.sensor_id]
       IN  card.color_box = SeverityColor(Cardinality(MergedOutOfBand(card)))

\* The band the config supplied last for the sensor gives a row
RetainedBand(sensor_id, row) ==
    LET rc == supplied_config[sensor_id][1]
    IN  IF GoodKey(row) \in DOMAIN rc THEN rc[GoodKey(row)] ELSE DocumentedDefault(row)

OmitsConfigAfterSupply ==
    /\ IsUpsert(last)
    /\ last.range_config = <<>>
    /\ last.out_of_range_count # <<>>
    /\ supplied_config[last.sensor_id] # <<>>

C9_ClassifyCountsOutOfBand ==
    (IsUpsert(last) /\ last.out_of_range_count # <<>>)
    => /\ last.raised = NoError
       /\ last.out_of_range_count[1] \in 0..3
       /\ last.out_of_range_count[1] =
              Cardinality({ row \in Rows :
                              /\ ValueOf(last.reading, row) # <<>>
                              /\ OutOf(ValueOf(last.reading, row)[1],
                                       Bands(last.range_config)[GoodKey(row)]) })

\* No good band is supplied for the row: no config, or a config without it
NoBandSupplied(call, row) ==
    \/ call.range_config = <<>>
    \/ GoodKey(row) \notin DOMAIN call.range_config[1]

\* C10: a metric for which no good band is supplied is classified against
\* the documented default band.
C10_MissingBandUsesDocumentedDefault ==
    \A row \in Rows :
        (IsUpsert(last) /\ row \in last.evaluated /\ NoBandSupplied(last, row))
        => /\ BarGood(cards_by_sensor_id[last.sensor_id], row) = DocumentedDefault(row)
           /\ last.evaluated = {row}
              => last.out_of_range_count[1] =
                     (IF OutOf(ValueOf(last.reading, row)[1], DocumentedDefault(row))
                      THEN 1 ELSE 0)

----------------------------------------------------------------------------
(* Claim C11: a malformed config (specification SpecMalformed)             *)

\* The metrics the reading of a call has a value for
Present(reading) == { row \in Rows : ValueOf(reading, row) # <<>> }

\* C11: with a config whose good bands have minimum above maximum,
\* update_data does not fail: it completes and counts every present value
\* of the reading as out of band.
C11_InvertedBandCountsEveryValue ==
    (/\ IsUpsert(last)
     /\ last.range_config = <<InvertedConfig>>
     /\ last.out_of_range_count # <<>>)
    => /\ last.raised = NoError
       /\ last.out_of_range_count[1] = Cardinality(Present(last.reading))

----------------------------------------------------------------------------
(* Claims C12..C14: the visible set (specification SpecDashboard)          *)

\* The card keeps no count: its severity is read back from the colour of
\* its box (0 green, 1 yellow, 2 red for two or three metrics)
Severity(card) ==
    CASE card.color_box = "#28a745" -> 0
      [] card.color_box = "#FFFF00" -> 1
      [] OTHER                      -> 2

\* The three conditions of visibility, on the current filter state
PassesFilters(card) ==
    /\ Contains(Strip(Lower(search_text)), Lower(card.sensor_name))
    /\ (~hide_non_favorites_cb \/ card.is_favorite)
    /\ \/ Severity(card) = 0
       \/ Severity(card) = 1 /\ show_minor_cb
       \/ Severity(card) >= 2 /\ show_major_cb

\* The ids of the display order that have a card
Displayed == { ordered_sensor_ids[i] : i \in 1..Len(ordered_sensor_ids) } \cap Known

\* C12: a sensor of the display order is in the visible set (the items of
\* the layout) exactly if its name contains the trimmed, lowercased search
\* text, it is a favorite or non-favorites are not hidden, and its severity
\* passes showMinor / showMajor; a severity of 0 always passes.
C12_VisibleIffPassesFilters ==
    \A sensor_id \in Displayed :
        InList(sensor_id, itemList) <=> PassesFilters(cards_by_sensor_id[sensor_id])

\* No filter hides anything
Permissive ==
    /\ Strip(Lower(search_text)) = <<>>
    /\ ~hide_non_favorites_cb
    /\ show_minor_cb
    /\ show_major_cb

\* C13: the visible set is the display order with some ids left out, in the
\* same relative order, and it is the whole display order when the filters
\* are permissive.
C13_VisibleIsSubsequenceOfOrder ==
    /\ itemList = SelectSeq(ordered_sensor_ids, LAMBDA sensor_id : InList(sensor_id, itemList))
    /\ Permissive => itemList = ordered_sensor_ids

\* The visible set the current state gives
VisibleSet ==
    SelectSeq(ordered_sensor_ids,
              LAMBDA sensor_id : /\ sensor_id \in Known
                                 /\ PassesFilters(cards_by_sensor_id[sensor_id]))

\* C14: every trigger (upsert, star toggle, search text change, checkbox
\* change) leaves in the layout exactly the visible set of the state it
\* leaves: never a stale one.
C14_LayoutFollowsEveryTrigger ==
    [][itemList' = VisibleSet']_vars

----------------------------------------------------------------------------
(* Claims C15..C20: the flow layout (specification SpecLayout)             *)

\* The last call was setGeometry: every item of itemList went through
\* doLayout(rect, False)
Laid == called.op = "setGeometry"

\* The rect of the last layout call and the width of the container
CalledRect == called.rect[1]
ContainerWidth == CalledRect.width

\* The items whose widget is visible, in the order of itemList
VisibleItems == SelectSeq(itemList, LAMBDA item : widget[item].isVisible)

\* The geometry an item was given
GeometryOf(item) == widget[item].geometry[1]
Placed(item) == widget[item].geometry # <<>>

\* C15: the first visible item is placed at (margin, margin); so is a
\* single item wider than the container, without wrapping.
C15_FirstItemAtMargin ==
    (Laid /\ VisibleItems # <<>>)
    => LET first == VisibleItems[1]
       IN  /\ Placed(first)
           /\ GeometryOf(first).x = flow_layout.contentsMargins.left
           /\ GeometryOf(first).y = flow_layout.contentsMargins.top

\* Four visible items of width 100 and one height lead a 330-wide container
FourEqualItems ==
    /\ Laid
    /\ ContainerWidth = 330
    /\ Len(itemList) >= 4
    /\ \A item \in 1..4 : /\ widget[item].isVisible
                           /\ widget[item].sizeHint = widget[1].sizeHint
                           /\ widget[item].sizeHint.width = 100

\* C16: with spacing 10 and margin 10, of four items of width 100 and one
\* height in a 330-wide container the first three are on one row and the
\* fourth starts a row at y = margin + lineHeight + spacing.
C16_FourthItemWraps ==
    FourEqualItems
    => /\ GeometryOf(2).y = GeometryOf(1).y
       /\ GeometryOf(3).y = GeometryOf(1).y
       /\ GeometryOf(4).y = Margin + widget[1].sizeHint.height + Spacing

\* A step from one of heightForWidth / setGeometry to the other, for one width
MeasureAndLayoutInTurn ==
    /\ {called.op, called'.op} = {"heightForWidth", "setGeometry"}
    /\ called'.rect[1].width = called.rect[1].width

\* C17: heightForWidth returns the height doLayout returns when the same
\* items are laid out in a container of that width at the origin, and it
\* changes no geometry.
C17_MeasureEqualsLayout ==
    [][/\ called'.op = "heightForWidth" => widget' = widget
       /\ MeasureAndLayoutInTurn => called'.ret = called.ret]_vars

\* A measuring call found more than one row, the items keeping the geometry
\* of an earlier layout
C17_Witness ==
    /\ called.op = "heightForWidth"
    /\ Len(VisibleItems) >= 3
    /\ called.ret[1] > 80 + Spacing
    /\ \A i \in 1..Len(VisibleItems) : Placed(VisibleItems[i])

\* C18: an invisible item takes no space and does not affect wrapping: the
\* visible items get the geometry, and doLayout returns the height, of a
\* layout of the visible items alone; an invisible item gets no geometry.
C18_InvisibleItemsTakeNoSpace ==
    Laid
    => LET alone == DoLayout(VisibleItems, widget, CalledRect, FALSE)
       IN  /\ called.ret = <<alone.ret>>
           /\ \A item \in DOMAIN widget :
                  IF widget[item].isVisible
                  THEN widget[item].geometry = alone.widget[item].geometry
                  ELSE ~Placed(item)

\* An invisible item between visible ones, which wrap
C18_Witness ==
    /\ Laid
    /\ Len(itemList) >= 4
    /\ widget[1].isVisible /\ ~widget[2].isVisible
    /\ widget[3].isVisible /\ widget[4].isVisible
    /\ GeometryOf(3).y = GeometryOf(1).y
    /\ GeometryOf(4).y > GeometryOf(1).y

\* C19: every visible item is placed once, with its intrinsic size, and in
\* input order: a later item is on the same row strictly to the right, or
\* on a lower row.
C19_OrderAndSizeKept ==
    Laid
    => /\ \A i \in 1..Len(VisibleItems) :
              LET item == VisibleItems[i]
              IN  /\ Placed(item)
                  /\ Len(widget[item].geometry) = 1
                  /\ GeometryOf(item).width = widget[item].sizeHint.width
                  /\ GeometryOf(item).height = widget[item].sizeHint.height
       /\ \A i, j \in 1..Len(VisibleItems) :
              i < j => LET gi == GeometryOf(VisibleItems[i])
                           gj == GeometryOf(VisibleItems[j])
                       IN  \/ gj.y = gi.y /\ gj.x > gi.x
                           \/ gj.y > gi.y

\* Three visible items on two rows, two of them sharing a row
C19_Witness ==
    /\ Laid
    /\ Len(VisibleItems) >= 3
    /\ \E i, j, k \in 1..Len(VisibleItems) :
           /\ i < j /\ j < k
           /\ GeometryOf(VisibleItems[j]).y = GeometryOf(VisibleItems[i]).y
           /\ GeometryOf(VisibleItems[k]).y > GeometryOf(VisibleItems[j]).y

\* The right edge the i-th visible item (i > 1) would have on the row of
\* the visible item before it
RightEdgeOnRow(i) ==
    LET before == GeometryOf(VisibleItems[i - 1])
    IN  before.x + before.width + Spacing + widget[VisibleItems[i]].sizeHint.width

\* C20: an item starts a new row exactly if the row holds an item already
\* and its right edge x + width would exceed containerWidth - margin; with
\* the right edge at containerWidth - margin it stays on the row.
C20_WrapIffBeyondMargin ==
    Laid
    => \A i \in 2..Len(VisibleItems) :
           (GeometryOf(VisibleItems[i]).y > GeometryOf(VisibleItems[i - 1]).y)
           <=> (RightEdgeOnRow(i) > ContainerWidth - Margin)

----------------------------------------------------------------------------
(* Claim C21: the height doLayout returns (specification SpecLayout)       *)

\* The rows of the last layout: the y of the visible items
RowYs == { GeometryOf(VisibleItems[i]).y : i \in 1..Len(VisibleItems) }

\* The height of the tallest item of the row at y
RowHeight(y) ==
    LET heights == { GeometryOf(VisibleItems[i]).height :
                       i \in { k \in 1..Len(VisibleItems) :
                                  GeometryOf(VisibleItems[k]).y = y } }
    IN  CHOOSE h \in heights : \A g \in heights : g <= h

RECURSIVE SumRowHeights(_)
SumRowHeights(ys) ==
    IF ys = {} THEN 0
    ELSE LET y == CHOOSE v \in ys : TRUE
         IN  RowHeight(y) + SumRowHeights(ys \ {y})

\* C21: the height doLayout returns is the sum over the rows of the height
\* of the row's tallest item, plus the spacing once between two rows; it
\* is 0 when no item is visible.
C21_TotalHeightIsSumOfRows ==
    Laid
    => called.ret[1] =
           IF VisibleItems = <<>>
           THEN 0
           ELSE SumRowHeights(RowYs) + Spacing * (Cardinality(RowYs) - 1)

\* Two rows, the first with a taller item followed by a lower one
C21_Witness ==
    /\ Laid
    /\ Len(VisibleItems) >= 3
    /\ Cardinality(RowYs) >= 2
    /\ GeometryOf(VisibleItems[1]).height > GeometryOf(VisibleItems[2]).height
    /\ GeometryOf(VisibleItems[1]).y = GeometryOf(VisibleItems[2]).y

----------------------------------------------------------------------------
(* Claim C22: favorites first (specification SpecDashboard)                *)

\* card.isFavorite() of the i-th sensor of the display order
FavoriteAt(i) == cards_by_sensor_id[ordered_sensor_ids[i]].is_favorite

\* C22: in the display order every favorite sensor precedes every sensor
\* that is not a favorite.
C22_FavoritesPrecedeOthers ==
    \A i, j \in 1..Len(ordered_sensor_ids) :
        (/\ i < j
         /\ ordered_sensor_ids[i] \in Known
         /\ ordered_sensor_ids[j] \in Known)
        => ~(~FavoriteAt(i) /\ FavoriteAt(j))

\* A favorite and a sensor whose star was cleared again, after a star toggle
C22_Witness ==
    /\ last.op = "_on_star_toggled"
    /\ Len(ordered_sensor_ids) = 2
    /\ FavoriteAt(1)
    /\ ~FavoriteAt(2)

----------------------------------------------------------------------------
(* Claim C23: no overlap (specification SpecLayout)                        *)

\* Two geometries share a pixel
Overlap(g, h) ==
    /\ g.x < h.x + h.width  /\ h.x < g.x + g.width
    /\ g.y < h.y + h.height /\ h.y < g.y + g.height

\* C23: no two placed items overlap; an item follows the item before it on
\* its row at exactly the spacing, and a row starts exactly the spacing
\* below the bottom of the tallest item of the row before.
C23_NoOverlap ==
    Laid
    => /\ \A i, j \in 1..Len(VisibleItems) :
              i < j => ~Overlap(GeometryOf(VisibleItems[i]), GeometryOf(VisibleItems[j]))
       /\ \A i \in 2..Len(VisibleItems) :
              LET before == GeometryOf(VisibleItems[i - 1])
                  g      == GeometryOf(VisibleItems[i])
              IN  IF g.y = before.y
                  THEN g.x = before.x + before.width + Spacing
                  ELSE g.y = before.y + RowHeight(before.y) + Spacing

\* Two rows of two items each, the taller item of the first row not the
\* last of it
C23_Witness ==
    /\ Laid
    /\ Len(VisibleItems) = 4
    /\ GeometryOf(VisibleItems[2]).y = GeometryOf(VisibleItems[1]).y
    /\ GeometryOf(VisibleItems[3]).y > GeometryOf(VisibleItems[2]).y
    /\ GeometryOf(VisibleItems[4]).y = GeometryOf(VisibleItems[3]).y
    /\ GeometryOf(VisibleItems[1]).height > GeometryOf(VisibleItems[2]).height

----------------------------------------------------------------------------
(* Claim C24: the signals of a poll worker (specification SpecWorker)      *)

\* How often a worker has emitted a signal
Emitted(w, signal) ==
    Cardinality({ i \in 1..Len(worker[w].emitted) : worker[w].emitted[i] = signal })

\* C24: a run of SensorPollWorker.run that has ended has emitted exactly one
\* of result and error, and then finished exactly once, as its last signal.
C24_OneOutcomeThenFinishedOnce ==
    \A w \in Workers :
        worker[w].pc = "done"
        => /\ Emitted(w, "result") + Emitted(w, "error") = 1
           /\ Emitted(w, "finished") = 1
           /\ worker[w].emitted[Len(worker[w].emitted)] = "finished"

====
